---- MODULE Spec2Model ----
(***************************************************************************)
(* Model of the Arcade flow analyzer: the analyze command                  *)
(* (src/cli/commands.py) driving AIService (src/services/ai_service.py):   *)
(* chunking of the flow's steps, per-chunk interaction extraction, the     *)
(* embedding + MMR ranker, the summarizer, the image composer and the      *)
(* report assembler.                                                       *)
(***************************************************************************)
EXTENDS Integers, Sequences, FiniteSets, TLC

(***************************************************************************)
(* Bounds of the model.                                                    *)
(***************************************************************************)
\* largest number of steps of a flow given to the chunker on its own
MaxN == 6
\* largest max_steps_per_chunk
MaxM == 3
\* largest number of steps of a flow in a whole run of the command
MaxSteps == 3
\* largest number of interactions one extraction response carries
MaxPerChunk == 2
\* largest max_interactions_for_summary
MaxK == 2

VARIABLES
    pc,                  \* position of the run (of analyze and the calls it makes)
    api_key,             \* commands.py: --api-key option (TRUE when non-empty)
    image_model,         \* commands.py: --image-model option
    image_output,        \* commands.py: --image-output option
    max_steps_per_chunk, \* AIService.max_steps_per_chunk
    max_interactions_for_summary, \* AIService.max_interactions_for_summary
    flow_data,           \* the parsed flow record
    chunks,              \* identify_interactions: chunks
    chunk_i,             \* identify_interactions: loop index i
    all_interactions,    \* identify_interactions / analyze: all_interactions
    interactions,        \* generate_summary: interactions (rebound by ranking)
    embeddings,          \* _mmr_select_indices: embeddings
    importance_scores,   \* _mmr_select_indices: importance_scores
    selected_indices,    \* _mmr_select_indices: selected_indices
    remaining_indices,   \* _mmr_select_indices: remaining_indices
    ranked,              \* what _rank_interactions returned, and how
    summary,             \* analyze: summary
    interactions_for_summary, \* analyze: interactions_for_summary
    report,              \* the lines written by generate_report
    image_file,          \* whether the image file was written
    requests,            \* every backend request issued so far, in order
    chunk_results        \* what each finished chunk's extraction returned

vars == <<pc, api_key, image_model, image_output, max_steps_per_chunk,
          max_interactions_for_summary, flow_data, chunks, chunk_i,
          all_interactions, interactions, embeddings, importance_scores,
          selected_indices, remaining_indices, ranked, summary,
          interactions_for_summary, report, image_file, requests,
          chunk_results>>

(***************************************************************************)
(* Python helpers.                                                         *)
(***************************************************************************)
None == "None"

Min(a, b) == IF a <= b THEN a ELSE b
Max(a, b) == IF a >= b THEN a ELSE b

\* dict.get(key, default)
Get(d, key, default) == IF key \in DOMAIN d THEN d[key] ELSE default

\* s[lo:hi] for 0 <= lo, with Python's clamping and negative hi
PySlice(s, lo, hi) ==
    LET n == Len(s)
        h == IF hi < 0 THEN Max(n + hi, 0) ELSE Min(hi, n)
    IN  IF lo >= h THEN <<>> ELSE SubSeq(s, lo + 1, h)

\* list(range(start, stop, step)) for step >= 1
RECURSIVE PyRange(_, _, _)
PyRange(start, stop, step) ==
    IF start >= stop THEN <<>>
    ELSE <<start>> \o PyRange(start + step, stop, step)

RECURSIVE Concat(_)
Concat(ss) == IF ss = <<>> THEN <<>> ELSE Head(ss) \o Concat(Tail(ss))

(***************************************************************************)
(* AIService._chunk_flow_data                                              *)
(***************************************************************************)
ChunkInfo(chunk_index, total_chunks, steps_in_chunk) ==
    [chunk_index |-> chunk_index, total_chunks |-> total_chunks,
     steps_in_chunk |-> steps_in_chunk]

FlowChunk(name, useCase, description, aspectRatio, steps, capturedEvents, chunk_info) ==
    [name |-> name, useCase |-> useCase, description |-> description,
     aspectRatio |-> aspectRatio, steps |-> steps,
     capturedEvents |-> capturedEvents, chunk_info |-> chunk_info]

\* a metadata object that loses the description (it keeps the field default)
FlowMetadataNoDescription(fd) ==
    [name |-> Get(fd, "name", "Untitled Flow"),
     use_case |-> Get(fd, "useCase", "unknown"),
     description |-> "",
     aspect_ratio |-> Get(fd, "aspectRatio", None)]

FlowMetadata(fd) ==
    [name |-> Get(fd, "name", "Untitled Flow"),
     use_case |-> Get(fd, "useCase", "unknown"),
     description |-> Get(fd, "description", ""),
     aspect_ratio |-> Get(fd, "aspectRatio", None)]

\* a floor instead of a ceiling
TotalChunksFloor(n, M) == n \div M

\* total_chunks = (len(steps) + M - 1) // M
TotalChunks(n, M) == (n + M - 1) \div M

\* a loop that stops before a final partial chunk
ChunkStartsFullOnly(n, M) == PyRange(0, n - M + 1, M)

\* range(0, len(steps), M)
ChunkStarts(n, M) == PyRange(0, n, M)

\* a slice that is one step short
ChunkStepsShort(steps, i, M) == PySlice(steps, i, i + M - 1)

\* steps[i : i + M]
ChunkSteps(steps, i, M) == PySlice(steps, i, i + M)

ChunkFlowData(fd, M) ==
    LET steps == Get(fd, "steps", <<>>)
        captured_events == Get(fd, "capturedEvents", <<>>)
    IN  IF Len(steps) <= M
        THEN << FlowChunk(Get(fd, "name", "Untitled Flow"),
                          Get(fd, "useCase", "unknown"),
                          Get(fd, "description", ""),
                          Get(fd, "aspectRatio", None),
                          steps, captured_events,
                          ChunkInfo(0, 1, Len(steps))) >>
        ELSE LET total_chunks == TotalChunks(Len(steps), M)
                 metadata == FlowMetadata(fd)
                 starts == ChunkStarts(Len(steps), M)
             IN  [c \in 1..Len(starts) |->
                    LET i == starts[c]
                        chunk_steps == ChunkSteps(steps, i, M)
                    IN  FlowChunk(metadata.name, metadata.use_case,
                                  metadata.description, metadata.aspect_ratio,
                                  chunk_steps, captured_events,
                                  ChunkInfo(i \div M, total_chunks,
                                            Len(chunk_steps)))]

(***************************************************************************)
(* Inputs: flow files, backend responses, embedding vectors.               *)
(***************************************************************************)
StepList(n) == [j \in 1..n |-> j]

\* flow records with every metadata key, with none, and without a steps key
FlowsOf(n, events) ==
    { [name |-> "Demo", useCase |-> "marketing",
       description |-> "Shows it. More.", aspectRatio |-> "1.5",
       steps |-> StepList(n), capturedEvents |-> events],
      [steps |-> StepList(n), capturedEvents |-> events] }

ChunkFlows ==
    UNION { FlowsOf(n, events) : n \in 0..MaxN,
                                 events \in {<<>>, <<"click", "typing">>} }
    \cup { [name |-> "Untitled Flow", useCase |-> "other"] }

PipelineFlows ==
    { [name |-> "Demo", useCase |-> "marketing",
       description |-> "Shows it. More.",  aspectRatio |-> "1.5",
       steps |-> StepList(n), capturedEvents |-> <<"click", "typing">>]
      : n \in 0..MaxSteps }

NoFlow == [unloaded |-> TRUE]

\* the interaction list of a valid extraction response for chunk c
ResponseList(c, len) == [j \in 1..len |-> <<c, j>>]

\* embedding vectors a backend response may carry (integer norms)
MMRVectors == { <<1, 0>>, <<0, 1>>, <<3, 4>>, <<4, 3>>, <<0, 0>> }

\* the vector lists a run of the command is given for n + 1 texts (query
\* first): alternating directions, one direction, a zero vector for the
\* last text, and a query closest to the second text
PipelineEmbeddings(n) ==
    { [p \in 1..(n + 1) |-> IF p % 2 = 1 THEN <<1, 0>> ELSE <<0, 1>>],
      [p \in 1..(n + 1) |-> <<1, 0>>],
      [p \in 1..(n + 1) |-> IF p = n + 1 THEN <<0, 0>> ELSE <<1, 0>>],
      [p \in 1..(n + 1) |-> IF p = 1 THEN <<3, 4>>
                            ELSE IF p % 2 = 0 THEN <<1, 0>> ELSE <<0, 1>>] }

\* every vector list over MMRVectors for n + 1 texts
AllEmbeddings(n) == [1..(n + 1) -> MMRVectors]

(***************************************************************************)
(* Floating point as used by the ranker.  A cosine is kept as the integer  *)
(* 25 * cos (exact for the vectors above), an MMR score as 250 * score;    *)
(* NaN is the result of 0/0 and compares false with everything.            *)
(***************************************************************************)
NaN == 99999
IsNaN(x) == x = NaN
Gt(x, y) == ~IsNaN(x) /\ ~IsNaN(y) /\ x > y

Dot(a, b) == a[1] * b[1] + a[2] * b[2]
\* np.linalg.norm
Norm(a) == CHOOSE r \in 0..5 : r * r = Dot(a, a)

\* np.dot(a, b) / (np.linalg.norm(a) * np.linalg.norm(b)), times 25
cosine_similarity(a, b) ==
    IF Norm(a) * Norm(b) = 0 THEN NaN
    ELSE (25 * Dot(a, b)) \div (Norm(a) * Norm(b))

\* Python's builtin max over a non-empty sequence: the running maximum is
\* replaced only when a later element compares greater
RECURSIVE PyMaxFrom(_, _)
PyMaxFrom(m, s) ==
    IF s = <<>> THEN m
    ELSE PyMaxFrom(IF Gt(Head(s), m) THEN Head(s) ELSE m, Tail(s))
PyMax(s) == PyMaxFrom(Head(s), Tail(s))

\* an argmax that returns the last position of the maximum
ArgMaxLast(s) ==
    LET nans == {j \in 1..Len(s) : IsNaN(s[j])}
        best == {j \in 1..Len(s) : \A k \in 1..Len(s) : s[j] >= s[k]}
        last(S) == CHOOSE j \in S : \A k \in S : j >= k
    IN  (IF nans # {} THEN last(nans) ELSE last(best)) - 1

\* np.argmax over a non-empty array: the first NaN if there is one,
\* otherwise the first position of the maximum (0-based)
ArgMax(s) ==
    LET nans == {j \in 1..Len(s) : IsNaN(s[j])}
        best == {j \in 1..Len(s) : \A k \in 1..Len(s) : s[j] >= s[k]}
        first(S) == CHOOSE j \in S : \A k \in S : j <= k
    IN  (IF nans # {} THEN first(nans) ELSE first(best)) - 1

\* list.remove(x) for a list holding x once
RECURSIVE Remove(_, _)
Remove(s, x) ==
    IF s = <<>> THEN <<>>
    ELSE IF Head(s) = x THEN Tail(s)
    ELSE <<Head(s)>> \o Remove(Tail(s), x)

(***************************************************************************)
(* AIService._embedding_based_filter_interactions: the importance query    *)
(***************************************************************************)
\* description.split(".")[0] + "."
FirstSentence(description) ==
    CASE description = "Shows it. More." -> "Shows it."
      [] OTHER -> description \o "."

QueryText(fd) ==
    LET flow_name == Get(fd, "name", "")
        use_case == Get(fd, "useCase", "")
        description == Get(fd, "description", "")
    IN  <<"User completed tasks. ...">>
        \o (IF DOMAIN fd # {} /\ flow_name # "" /\ flow_name # "Untitled Flow"
            THEN <<"User actions in " \o flow_name \o ".">> ELSE <<>>)
        \o (IF DOMAIN fd # {} /\ use_case # "" /\ use_case \notin {"unknown", "other"}
            THEN <<"Actions related to " \o use_case \o ".">> ELSE <<>>)
        \o (IF DOMAIN fd # {} /\ description # ""
            THEN <<"User " \o FirstSentence(description)>> ELSE <<>>)

(***************************************************************************)
(* AIService._mmr_select_indices                                           *)
(***************************************************************************)
\* max similarity of candidate idx to the already selected ones
MaxSimilarityToSelected(emb, sel, idx) ==
    PyMax([j \in 1..Len(sel) |->
             cosine_similarity(emb[idx + 1], emb[sel[j] + 1])])

\* a score with the two weights exchanged
MMRScoreDiversityFirst(emb, imp, sel, idx) ==
    LET importance == imp[idx + 1]
        max_similarity_to_selected == MaxSimilarityToSelected(emb, sel, idx)
    IN  IF IsNaN(importance) \/ IsNaN(max_similarity_to_selected) THEN NaN
        ELSE 3 * importance + 7 * (25 - max_similarity_to_selected)

\* lambda_param * importance + (1 - lambda_param) * diversity, times 250
MMRScore(emb, imp, sel, idx) ==
    LET importance == imp[idx + 1]
        max_similarity_to_selected == MaxSimilarityToSelected(emb, sel, idx)
    IN  IF IsNaN(importance) \/ IsNaN(max_similarity_to_selected) THEN NaN
        ELSE 7 * importance + 3 * (25 - max_similarity_to_selected)

\* the inner for loop: best is <<best_score, best_idx>>
RECURSIVE BestFrom(_, _, _, _, _)
BestFrom(best, rem, emb, imp, sel) ==
    IF rem = <<>> THEN best
    ELSE LET idx == Head(rem)
             mmr_score == MMRScore(emb, imp, sel, idx)
         IN  BestFrom(IF Gt(mmr_score, best[1]) THEN <<mmr_score, idx>> ELSE best,
                      Tail(rem), emb, imp, sel)

\* best_idx: int | None = None
NoIdx == -1

\* best_idx after the for loop (None when no candidate beat -1.0)
BestIdx(emb, imp, sel, rem) == BestFrom(<<-250, NoIdx>>, rem, emb, imp, sel)[2]

\* state right after the seed selection
MMRSeedSelected(imp) == << ArgMax(imp) >>

\* a seed step that leaves the seed among the remaining indices
MMRSeedRemainingAll(emb, imp) == PyRange(0, Len(emb), 1)

\* remaining_indices = list(range(len(embeddings))) without first_idx
MMRSeedRemaining(emb, imp) == Remove(PyRange(0, Len(emb), 1), ArgMax(imp))

\* a loop test that admits one selection more
MMRLoopCondInclusive(sel, rem, target_count) ==
    Len(sel) <= target_count /\ rem # <<>>

\* while len(selected_indices) < target_count and remaining_indices
MMRLoopCond(sel, rem, target_count) == Len(sel) < target_count /\ rem # <<>>

(***************************************************************************)
(* The run of the analyze command.                                         *)
(***************************************************************************)
config == <<api_key, image_model, image_output, max_steps_per_chunk,
            max_interactions_for_summary>>
mmr_locals == <<embeddings, importance_scores, selected_indices, remaining_indices>>
outputs == <<summary, interactions_for_summary, report, image_file>>

Init ==
    /\ pc = "analyze"
    /\ api_key \in BOOLEAN
    /\ image_model \in {"gpt-image-1", "dall-e-3"}
    /\ image_output = "flow_image.png"
    /\ max_steps_per_chunk \in 1..MaxM
    /\ max_interactions_for_summary \in 0..MaxK
    /\ flow_data = NoFlow
    /\ chunks = <<>>
    /\ chunk_i = 0
    /\ all_interactions = <<>>
    /\ interactions = <<>>
    /\ embeddings = <<>>
    /\ importance_scores = <<>>
    /\ selected_indices = <<>>
    /\ remaining_indices = <<>>
    /\ ranked = [how |-> "no", embed |-> "no", indices |-> <<>>]
    /\ summary = None
    /\ interactions_for_summary = <<>>
    /\ report = <<>>
    /\ image_file = FALSE
    /\ requests = <<>>
    /\ chunk_results = <<>>

\* a start that leaves the image model to be checked when it is used
ConfigCheckKeyOnly(key, model) ==
    IF ~key THEN "usage_error" ELSE "load"

\* where the run goes after the credential check of analyze and the image
\* model check of AIService.__init__
ConfigCheck(key, model) ==
    IF ~key THEN "usage_error"
    ELSE IF model # "gpt-image-1" THEN "value_error"
    ELSE "load"

\* commands.py: the credential check and AIService.__init__
AnalyzeStart ==
    /\ pc = "analyze"
    /\ pc' = ConfigCheck(api_key, image_model)
    /\ UNCHANGED <<config, flow_data, chunks, chunk_i, all_interactions,
                   interactions, mmr_locals, ranked, outputs, requests,
                   chunk_results>>

\* FlowService.load_flow_data: the parsed file, or an I/O or parse error
LoadFlowData ==
    /\ pc = "load"
    /\ \/ \E fd \in PipelineFlows : flow_data' = fd /\ pc' = "identify"
       \/ flow_data' = flow_data /\ pc' = "load_error"
    /\ UNCHANGED <<config, chunks, chunk_i, all_interactions, interactions,
                   mmr_locals, ranked, outputs, requests, chunk_results>>

\* identify_interactions up to the loop
IdentifyInteractions ==
    /\ pc = "identify"
    /\ chunks' = ChunkFlowData(flow_data, max_steps_per_chunk)
    /\ chunk_i' = 0
    /\ all_interactions' = <<>>
    /\ pc' = "extract"
    /\ UNCHANGED <<config, flow_data, interactions, mmr_locals, ranked,
                   outputs, requests, chunk_results>>

\* a loop over the chunks that leaves before the last one
LoopDoneBeforeLast(i, list) == i + 1 >= Len(list)

\* for i, chunk in enumerate(chunks): the loop has run through the list
LoopDone(i, list) == i >= Len(list)

\* _process_chunk: the chat completion request for chunk i is sent
ProcessChunkCall ==
    /\ pc = "extract"
    /\ ~LoopDone(chunk_i, chunks)
    /\ requests' = Append(requests, [kind |-> "extract", index |-> chunk_i,
                                     chunk |-> chunks[chunk_i + 1]])
    /\ pc' = "extract_wait"
    /\ UNCHANGED <<config, flow_data, chunks, chunk_i, all_interactions,
                   interactions, mmr_locals, ranked, outputs, chunk_results>>

\* responses the chat backend may give to an extraction request for chunk c:
\* a valid body, a body with a list that fails InteractionsResponse
\* validation (extra="forbid"), an empty body, or an exception raised by the
\* client
ExtractionResponses(c) ==
    { [outcome |-> "ok", interactions |-> ResponseList(c, len)] :
        len \in 0..MaxPerChunk }
    \cup { [outcome |-> "invalid", interactions |-> ResponseList(c, 1)] }
    \cup { [outcome |-> o, interactions |-> <<>>] : o \in {"error", "empty"} }

\* a _process_chunk that validates the body outside the try block
ProcessChunkValidationUncaught(response) ==
    CASE response.outcome = "ok" ->
           [raised |-> FALSE, value |-> response.interactions]
      [] response.outcome = "empty" -> [raised |-> FALSE, value |-> <<>>]
      [] response.outcome = "error" -> [raised |-> FALSE, value |-> <<>>]
      [] response.outcome = "invalid" -> [raised |-> TRUE, value |-> <<>>]

\* _process_chunk from the response on: the try block, the handler and the
\* final return
ProcessChunk(response) ==
    CASE response.outcome = "ok" ->
           [raised |-> FALSE, value |-> response.interactions]
      [] response.outcome = "empty" -> [raised |-> FALSE, value |-> <<>>]
      [] response.outcome \in {"error", "invalid"} ->
           [raised |-> FALSE, value |-> <<>>]

\* all_interactions.extend(interactions)
Extend(all, more) == all \o more

\* a loop that stays on a chunk whose request raised
NextChunkIndexRetry(i, response) ==
    IF response.outcome = "error" THEN i ELSE i + 1

\* for i, chunk in enumerate(chunks): the index of the next iteration
NextChunkIndex(i, response) == i + 1

\* _process_chunk returns and identify_interactions extends all_interactions
ProcessChunkReturn ==
    /\ pc = "extract_wait"
    /\ \E response \in ExtractionResponses(chunk_i) :
         LET r == ProcessChunk(response)
         IN  /\ chunk_results' = Append(chunk_results, response)
             /\ IF r.raised
                THEN /\ pc' = "extract_error"
                     /\ UNCHANGED <<all_interactions, chunk_i>>
                ELSE /\ all_interactions' = Extend(all_interactions, r.value)
                     /\ chunk_i' = NextChunkIndex(chunk_i, response)
                     /\ pc' = "extract"
    /\ UNCHANGED <<config, flow_data, chunks, interactions, mmr_locals,
                   ranked, outputs, requests>>

\* a comparison that also ranks a list of exactly K interactions
NeedsRankingAtCap(n, K) == n >= K

\* if len(interactions) > self.max_interactions_for_summary
NeedsRanking(n, K) == n > K

\* identify_interactions returns; analyze calls generate_summary
GenerateSummaryStart ==
    /\ pc = "extract"
    /\ LoopDone(chunk_i, chunks)
    /\ interactions' = all_interactions
    /\ pc' = IF NeedsRanking(Len(all_interactions), max_interactions_for_summary)
             THEN "rank" ELSE "summarize"
    /\ UNCHANGED <<config, flow_data, chunks, chunk_i, all_interactions,
                   mmr_locals, ranked, outputs, requests, chunk_results>>

\* the embeddings backend's answers to a request for n + 1 texts: an
\* exception, or one vector per text
EmbeddingResponses(lists) ==
    { [outcome |-> "error", data |-> <<>>] }
    \cup { [outcome |-> "ok", data |-> d] : d \in lists }

\* a fallback that keeps the last target_count interactions
FallbackTail(list, target_count) ==
    PySlice(list, Len(list) - target_count, Len(list))

\* interactions[:target_count], the except branch
Fallback(list, target_count) == PySlice(list, 0, target_count)

\* importance scores: cosine similarity of each interaction to the query
Similarities(data) ==
    [j \in 1..(Len(data) - 1) |-> cosine_similarity(data[j + 1], data[1])]

\* [interactions[i] for i in selected_indices]
SelectByIndex(list, sel) == [j \in 1..Len(sel) |-> list[sel[j] + 1]]

\* an input list that puts the query after the interactions
AllTextsQueryLast(query_text, list) == list \o <<query_text>>

\* all_texts = [query_text] + interactions
AllTexts(query_text, list) == <<query_text>> \o list

\* _rank_interactions / _embedding_based_filter_interactions up to the first
\* statements of _mmr_select_indices: one embedding request; on failure (or
\* on argmax failing over no scores) the fallback is returned at once
RankEmbedAt(at, lists) ==
    /\ pc = at
    /\ requests' = Append(requests, [kind |-> "embed",
                       input |-> AllTexts(QueryText(flow_data), interactions)])
    /\ \E response \in EmbeddingResponses(lists) :
         IF response.outcome = "error" \/ Len(interactions) = 0
         THEN /\ interactions' = Fallback(interactions, max_interactions_for_summary)
              /\ ranked' = [how |-> "fallback", embed |-> response.outcome,
                             indices |-> <<>>]
              /\ pc' = "summarize"
              /\ UNCHANGED mmr_locals
         ELSE LET emb == Tail(response.data)
                  imp == Similarities(response.data)
              IN  /\ embeddings' = emb
                  /\ importance_scores' = imp
                  /\ selected_indices' = MMRSeedSelected(imp)
                  /\ remaining_indices' = MMRSeedRemaining(emb, imp)
                  /\ pc' = "mmr_loop"
                  /\ UNCHANGED <<interactions, ranked>>
    /\ UNCHANGED <<config, flow_data, chunks, chunk_i, all_interactions,
                   outputs, chunk_results>>

RankEmbed == RankEmbedAt("rank", PipelineEmbeddings(Len(interactions)))

\* one iteration of the while loop of _mmr_select_indices that selects
MMRIterate ==
    /\ pc = "mmr_loop"
    /\ MMRLoopCond(selected_indices, remaining_indices, max_interactions_for_summary)
    /\ LET best_idx == BestIdx(embeddings, importance_scores,
                               selected_indices, remaining_indices)
       IN  /\ best_idx # NoIdx
           /\ selected_indices' = Append(selected_indices, best_idx)
           /\ remaining_indices' = Remove(remaining_indices, best_idx)
    /\ UNCHANGED <<pc, config, flow_data, chunks, chunk_i, all_interactions,
                   interactions, embeddings, importance_scores, ranked,
                   outputs, requests, chunk_results>>

\* the loop ends (condition false, or break) and the ranker returns
MMRReturn ==
    /\ pc = "mmr_loop"
    /\ \/ ~MMRLoopCond(selected_indices, remaining_indices,
                       max_interactions_for_summary)
       \/ BestIdx(embeddings, importance_scores, selected_indices,
                  remaining_indices) = NoIdx
    /\ interactions' = SelectByIndex(interactions, selected_indices)
    /\ ranked' = [how |-> "mmr", embed |-> "ok",
                   indices |-> selected_indices]
    /\ embeddings' = <<>>
    /\ importance_scores' = <<>>
    /\ selected_indices' = <<>>
    /\ remaining_indices' = <<>>
    /\ pc' = "summarize"
    /\ UNCHANGED <<config, flow_data, chunks, chunk_i, all_interactions,
                   outputs, requests, chunk_results>>

\* the chat backend's answers to the summary request
SummaryResponses == {"ok", "invalid", "empty", "error"}

\* generate_summary from the backend call on: the call is outside any try
\* block, so a client exception leaves the method; a body that fails
\* SummaryResponse validation, or an empty body, gives the fixed text
SummaryOutcome(response, list) ==
    CASE response = "error" ->
           [raised |-> TRUE, summary |-> None, interactions |-> <<>>]
      [] response = "ok" ->
           [raised |-> FALSE, summary |-> "S", interactions |-> list]
      [] response = "invalid" ->
           [raised |-> FALSE, summary |-> "Unable to generate summary.",
            interactions |-> list]
      [] response = "empty" ->
           [raised |-> FALSE, summary |-> "Unable to generate summary.",
            interactions |-> list]

\* generate_summary after ranking: the summary request and its result
Summarize ==
    /\ pc = "summarize"
    /\ \E response \in SummaryResponses :
         LET r == SummaryOutcome(response, interactions)
         IN  /\ requests' = Append(requests, [kind |-> "summary",
                                              interactions |-> interactions,
                                              outcome |-> response])
             /\ IF r.raised
                THEN pc' = "summary_error" /\ UNCHANGED outputs
                ELSE /\ summary' = r.summary
                     /\ interactions_for_summary' = r.interactions
                     /\ pc' = "image"
                     /\ UNCHANGED <<report, image_file>>
    /\ UNCHANGED <<config, flow_data, chunks, chunk_i, all_interactions,
                   interactions, mmr_locals, ranked, chunk_results>>

\* build_image_prompt(template, flow_name, summary) has three parameters
BuildImagePromptParams == 3
\* create_social_image passes prompt_template, flow_name, use_case, summary
BuildImagePromptArgs == 4

\* create_social_image: the call of build_image_prompt is made before the
\* try block; with the wrong number of arguments it raises TypeError, which
\* leaves create_social_image and analyze
CreateSocialImage ==
    /\ pc = "image"
    /\ BuildImagePromptArgs # BuildImagePromptParams
    /\ pc' = "image_error"
    /\ UNCHANGED <<config, flow_data, chunks, chunk_i, all_interactions,
                   interactions, mmr_locals, ranked, outputs, requests,
                   chunk_results>>

Next ==
    \/ AnalyzeStart
    \/ LoadFlowData
    \/ IdentifyInteractions
    \/ ProcessChunkCall
    \/ ProcessChunkReturn
    \/ GenerateSummaryStart
    \/ RankEmbed
    \/ MMRIterate
    \/ MMRReturn
    \/ Summarize
    \/ CreateSocialImage

Spec == Init /\ [][Next]_vars

(***************************************************************************)
(* The chunker on its own: _chunk_flow_data applied to any flow.           *)
(***************************************************************************)
InitChunk ==
    /\ pc = "chunk_only"
    /\ api_key = TRUE
    /\ image_model = "gpt-image-1"
    /\ image_output = "flow_image.png"
    /\ max_steps_per_chunk \in 1..MaxM
    /\ max_interactions_for_summary = 0
    /\ flow_data \in ChunkFlows
    /\ chunks = <<>>
    /\ chunk_i = 0
    /\ all_interactions = <<>>
    /\ interactions = <<>>
    /\ embeddings = <<>>
    /\ importance_scores = <<>>
    /\ selected_indices = <<>>
    /\ remaining_indices = <<>>
    /\ ranked = [how |-> "no", embed |-> "no", indices |-> <<>>]
    /\ summary = None
    /\ interactions_for_summary = <<>>
    /\ report = <<>>
    /\ image_file = FALSE
    /\ requests = <<>>
    /\ chunk_results = <<>>

ChunkFlowDataCall ==
    /\ pc = "chunk_only"
    /\ chunks' = ChunkFlowData(flow_data, max_steps_per_chunk)
    /\ pc' = "chunked"
    /\ UNCHANGED <<config, flow_data, chunk_i, all_interactions, interactions,
                   mmr_locals, ranked, outputs, requests, chunk_results>>

NextChunk == ChunkFlowDataCall

SpecChunk == InitChunk /\ [][NextChunk]_vars

(***************************************************************************)
(* The ranker on its own: _rank_interactions applied to any list longer    *)
(* than K, with embeddings drawn from the richer vector set.               *)
(***************************************************************************)
\* largest number of interactions given to the ranker on its own
MaxRankN == 4

\* interaction texts, with repetitions
RankInput(n) == [j \in 1..n |-> IF j % 2 = 1 THEN <<0, 1>> ELSE <<0, 2>>]

InitRanker(max_n) ==
    /\ pc = "rank_only"
    /\ api_key = TRUE
    /\ image_model = "gpt-image-1"
    /\ image_output = "flow_image.png"
    /\ max_steps_per_chunk = 1
    /\ max_interactions_for_summary \in 0..(max_n - 1)
    /\ flow_data \in PipelineFlows
    /\ Len(flow_data.steps) = 0
    /\ chunks = <<>>
    /\ chunk_i = 0
    /\ \E n \in 1..max_n :
          /\ n > max_interactions_for_summary
          /\ all_interactions = RankInput(n)
    /\ interactions = all_interactions
    /\ embeddings = <<>>
    /\ importance_scores = <<>>
    /\ selected_indices = <<>>
    /\ remaining_indices = <<>>
    /\ ranked = [how |-> "no", embed |-> "no", indices |-> <<>>]
    /\ summary = None
    /\ interactions_for_summary = <<>>
    /\ report = <<>>
    /\ image_file = FALSE
    /\ requests = <<>>
    /\ chunk_results = <<>>

InitMMR == InitRanker(MaxRankN)

RankOnlyEmbed == RankEmbedAt("rank_only", AllEmbeddings(Len(interactions)))

NextMMR ==
    \/ RankOnlyEmbed
    \/ MMRIterate
    \/ MMRReturn

SpecMMR == InitMMR /\ [][NextMMR]_vars

\* largest number of interactions given to the ranker when the termination
\* of its loop is checked
MaxFairN == 3

\* the ranker on its own for the termination of its loop: embeddings over
\* three vectors, one of them of norm zero
FairVectors == {<<1, 0>>, <<3, 4>>, <<0, 0>>}

FairEmbeddings(n) == [1..(n + 1) -> FairVectors]

RankFairEmbed == RankEmbedAt("rank_only", FairEmbeddings(Len(interactions)))

NextMMRFair ==
    \/ RankFairEmbed
    \/ MMRIterate
    \/ MMRReturn

\* the loop of _mmr_select_indices is straight-line code on local data: once
\* entered, each iteration and the return are carried out
InitMMRFair == InitRanker(MaxFairN)

SpecMMRFair ==
    InitMMRFair /\ [][NextMMRFair]_vars /\ WF_vars(MMRIterate) /\ WF_vars(MMRReturn)

(***************************************************************************)
(* The report assembler on its own: ReportService.generate_report applied  *)
(* to any interaction list, summary text and image path, as analyze calls  *)
(* it once create_social_image has returned.                               *)
(***************************************************************************)
\* largest number of interactions given to the report assembler on its own
MaxReportN == 3

\* a numbering that starts at 0
ReportNumberFromZero(position) == position - 1

\* enumerate(interactions, 1): the number of the element at a 1-based position
ReportNumber(position) == position

\* f"{i}. {interaction}"
NumberedLine(position, interaction) ==
    ToString(ReportNumber(position)) \o ". " \o interaction

\* f"![Flow Visualization]({image_path})"
ImageLine(image_path) == "![Flow Visualization](" \o image_path \o ")"

\* the lines generate_report joins with "\n"
MarkdownLines(list, text, image_path) ==
    << "# Arcade Flow Analysis Report", "", "## Summary", "", text, "",
       "## User Interactions", "" >>
    \o [j \in 1..Len(list) |-> NumberedLine(j, list[j])]
    \o << "", "## Social Media Image", "", ImageLine(image_path), "" >>

\* commands.py step 4: generate_report(all_interactions, summary,
\* image_output, output); write_text may raise
GenerateReport ==
    /\ pc = "report"
    /\ \E written \in BOOLEAN :
          IF written
          THEN /\ report' = MarkdownLines(all_interactions, summary,
                                          image_output)
               /\ pc' = "done"
          ELSE /\ pc' = "report_error"
               /\ UNCHANGED report
    /\ UNCHANGED <<config, flow_data, chunks, chunk_i, all_interactions,
                   interactions, mmr_locals, ranked, summary,
                   interactions_for_summary, image_file, requests,
                   chunk_results>>

\* interaction texts as the extractor returns them
ReportTexts == {"Click Save", "Type a name"}

ReportInputs ==
    UNION {[1..n -> ReportTexts] : n \in 0..MaxReportN}

InitReport ==
    /\ pc = "report"
    /\ api_key = TRUE
    /\ image_model = "gpt-image-1"
    /\ image_output \in {"flow_image.png", "out/social.png"}
    /\ max_steps_per_chunk = 1
    /\ max_interactions_for_summary = MaxReportN
    /\ flow_data \in PipelineFlows
    /\ Len(flow_data.steps) = 0
    /\ chunks = <<>>
    /\ chunk_i = 0
    /\ all_interactions \in ReportInputs
    /\ interactions = all_interactions
    /\ embeddings = <<>>
    /\ importance_scores = <<>>
    /\ selected_indices = <<>>
    /\ remaining_indices = <<>>
    /\ ranked = [how |-> "no", embed |-> "no", indices |-> <<>>]
    /\ summary \in {"Renames a file.", "Unable to generate summary."}
    /\ interactions_for_summary = all_interactions
    /\ report = <<>>
    /\ image_file \in BOOLEAN
    /\ requests = <<>>
    /\ chunk_results = <<>>

NextReport == GenerateReport

SpecReport == InitReport /\ [][NextReport]_vars

(***************************************************************************)
(* Properties of the chunker.                                              *)
(***************************************************************************)
SourceSteps == Get(flow_data, "steps", <<>>)
NSteps == Len(SourceSteps)

\* ceil(n / m), defined by its bounds
CeilDiv(n, m) == CHOOSE q \in 0..n : q * m >= n /\ (q - 1) * m < n

ChunkSizes == [c \in 1..Len(chunks) |-> Len(chunks[c].steps)]

\* C1: for N >= 0 steps and M >= 1 the chunker returns max(1, ceil(N/M))
\* chunks: one chunk when N = 0 or N <= M, ceil(N/M) otherwise, and M + 1
\* steps give two chunks of sizes [M, 1]
C1_ChunkCount ==
    pc = "chunked" =>
       /\ Len(chunks) = Max(1, CeilDiv(NSteps, max_steps_per_chunk))
       /\ NSteps <= max_steps_per_chunk => Len(chunks) = 1
       /\ NSteps > max_steps_per_chunk =>
             Len(chunks) = CeilDiv(NSteps, max_steps_per_chunk)
       /\ NSteps = max_steps_per_chunk + 1 =>
             ChunkSizes = <<max_steps_per_chunk, 1>>

C1_Witness ==
    /\ pc = "chunked"
    /\ max_steps_per_chunk = 3
    /\ NSteps = 4
    /\ ChunkSizes = <<3, 1>>

\* C2: chunk i holds exactly the steps at positions [i*M, min((i+1)*M, N)),
\* so no chunk has more than M steps and the chunks' steps, concatenated in
\* chunk order, are the original steps
C2_ChunkSlices ==
    pc = "chunked" =>
       /\ \A c \in 1..Len(chunks) :
            LET lo == (c - 1) * max_steps_per_chunk
                hi == Min(c * max_steps_per_chunk, NSteps)
            IN  /\ chunks[c].steps = [j \in 1..(hi - lo) |-> SourceSteps[lo + j]]
                /\ Len(chunks[c].steps) <= max_steps_per_chunk
       /\ Concat([c \in 1..Len(chunks) |-> chunks[c].steps]) = SourceSteps

C2_Witness ==
    /\ pc = "chunked"
    /\ max_steps_per_chunk = 2
    /\ NSteps = 5
    /\ Len(chunks) = 3
    /\ chunks[3].steps = <<5>>

C4_ChunkInfo ==
    pc = "chunked" =>
       \A c \in 1..Len(chunks) :
          /\ chunks[c].chunk_info.chunk_index = c - 1
          /\ chunks[c].chunk_info.total_chunks = Len(chunks)
          /\ chunks[c].chunk_info.steps_in_chunk = Len(chunks[c].steps)

C4_Witness ==
    /\ pc = "chunked"
    /\ Len(chunks) = 3
    /\ chunks[3].chunk_info = ChunkInfo(2, 3, 1)

(***************************************************************************)
(* Properties of a run of the command.                                     *)
(***************************************************************************)
\* the requests of one kind, in the order issued
RECURSIVE OfKind(_, _)
OfKind(reqs, kind) ==
    IF reqs = <<>> THEN <<>>
    ELSE (IF Head(reqs).kind = kind THEN <<Head(reqs)>> ELSE <<>>)
         \o OfKind(Tail(reqs), kind)

ExtractRequests == OfKind(requests, "extract")
EmbedRequests == OfKind(requests, "embed")
SummaryRequests == OfKind(requests, "summary")

\* identify_interactions has returned
ExtractionOver ==
    pc \in {"rank", "mmr_loop", "summarize", "image", "summary_error",
            "image_error"}

\* generate_summary has returned a value
SummaryReturned == pc \in {"image", "image_error"}

\* the interaction list a finished chunk contributes when it succeeded
Contribution(result) ==
    IF result.outcome = "ok" THEN result.interactions ELSE <<>>

Failed(result) == result.outcome \in {"error", "invalid"}

\* C5: when the backend call or the validation fails for some chunks,
\* identify_interactions raises nothing, goes on to every later chunk and
\* returns the concatenation, in chunk order, of the lists of the chunks that
\* succeeded; what earlier chunks gave is never lost
C5_ExtractionResilience ==
    /\ pc # "extract_error"
    /\ all_interactions =
          Concat([c \in 1..Len(chunk_results) |-> Contribution(chunk_results[c])])
    /\ ExtractionOver => Len(chunk_results) = Len(chunks)

C5_Witness ==
    /\ ExtractionOver
    /\ Len(chunks) = 3
    /\ chunk_results[1].outcome = "ok"
    /\ chunk_results[2].outcome = "invalid"
    /\ chunk_results[2].interactions # <<>>
    /\ chunk_results[3].outcome = "ok"
    /\ all_interactions = << <<0, 1>>, <<0, 2>>, <<2, 1>> >>

\* C6: one extraction request per chunk, in increasing chunk order, the
\* request for the next chunk only after the previous one has returned or
\* failed, no request repeated, and one request for a flow without steps
C6_OneRequestPerChunk ==
    /\ \A k \in 1..Len(ExtractRequests) :
          /\ ExtractRequests[k].index = k - 1
          /\ k <= Len(chunks)
          /\ ExtractRequests[k].chunk = chunks[k]
    /\ Len(ExtractRequests) =
          Len(chunk_results) + (IF pc = "extract_wait" THEN 1 ELSE 0)
    /\ ExtractionOver =>
          /\ Len(ExtractRequests) = Len(chunks)
          /\ Len(SourceSteps) = 0 =>
                /\ Len(ExtractRequests) = 1
                /\ ExtractRequests[1].chunk.steps = <<>>

C6_Witness ==
    /\ ExtractionOver
    /\ Len(chunks) = 3
    /\ Len(ExtractRequests) = 3
    /\ chunk_results[1].outcome = "error"
    /\ chunk_results[2].outcome = "error"

\* C7: with at most K interactions generate_summary sends no embedding
\* request, gives the summarizer the full list in its original order and
\* returns that list with the summary
C7_NoRankingWithinCap ==
    (ExtractionOver /\ Len(all_interactions) <= max_interactions_for_summary) =>
       /\ EmbedRequests = <<>>
       /\ ranked.how = "no"
       /\ \A k \in 1..Len(SummaryRequests) :
             SummaryRequests[k].interactions = all_interactions
       /\ SummaryReturned => interactions_for_summary = all_interactions

C7_Witness ==
    /\ SummaryReturned
    /\ max_interactions_for_summary = 2
    /\ Len(all_interactions) = 2
    /\ EmbedRequests = <<>>
    /\ Len(SummaryRequests) = 1
    /\ interactions_for_summary = all_interactions

\* C8: the ranker, invoked on n > K interactions with a successful embedding
\* request, returns exactly K interactions taken from K distinct positions
\* of the original list
C8_RankerReturnsK ==
    (ranked.how = "mmr" /\ ranked.embed = "ok") =>
       /\ Len(interactions) = max_interactions_for_summary
       /\ Len(ranked.indices) = max_interactions_for_summary
       /\ \A j, k \in 1..Len(ranked.indices) :
             j # k => ranked.indices[j] # ranked.indices[k]
       /\ \A j \in 1..Len(ranked.indices) :
             /\ ranked.indices[j] \in 0..(Len(all_interactions) - 1)
             /\ interactions[j] = all_interactions[ranked.indices[j] + 1]

\* C9: when the embedding request fails while ranking n > K interactions the
\* ranker raises nothing and returns interactions[0:K], the first K in the
\* original order, and the run goes on to the summarizer with that list
C9_RankingFallback ==
    ranked.embed = "error" =>
       /\ ranked.how = "fallback"
       /\ interactions = [j \in 1..max_interactions_for_summary |->
                             all_interactions[j]]
       /\ pc \in {"summarize", "image", "summary_error", "image_error"}
       /\ \A k \in 1..Len(SummaryRequests) :
             SummaryRequests[k].interactions = interactions

C9_Witness ==
    /\ ranked.embed = "error"
    /\ max_interactions_for_summary = 2
    /\ Len(all_interactions) = 4
    /\ interactions = << <<0, 1>>, <<0, 2>> >>
    /\ Len(SummaryRequests) = 1
    /\ SummaryRequests[1].interactions = << <<0, 1>>, <<0, 2>> >>

\* C10: the list handed to the summarizer never has more than K elements,
\* for every K, after MMR selection and after the fallback
C10_SummaryInputWithinCap ==
    \A k \in 1..Len(SummaryRequests) :
       Len(SummaryRequests[k].interactions) <= max_interactions_for_summary

(***************************************************************************)
(* Properties of the summarizer, the image stage and the run's end.        *)
(***************************************************************************)
\* C12: when the summary request fails at the backend or its body fails
\* validation, generate_summary raises nothing and returns the fixed text
\* with the list it was working with, and the run goes on to the image stage
C12_SummaryFailureIsLocal ==
    \A k \in 1..Len(SummaryRequests) :
       SummaryRequests[k].outcome \in {"error", "invalid"} =>
          /\ pc \in {"image", "image_error", "report", "report_error", "done"}
          /\ summary = "Unable to generate summary."
          /\ interactions_for_summary = SummaryRequests[k].interactions

\* C13: create_social_image never lets an exception reach analyze: every
\* call of it is followed by the report step
C13_ImageStageReturns ==
    [][pc = "image" => pc' = "report"]_vars

\* C14: a run without a credential, or with an image model other than
\* "gpt-image-1", stops in an error with no backend request issued, no flow
\* loaded and no report or image file written
C14_ConfigAbortsFirst ==
    (~api_key \/ image_model # "gpt-image-1") =>
       /\ pc \in {"analyze", "usage_error", "value_error"}
       /\ requests = <<>>
       /\ flow_data = NoFlow
       /\ report = <<>>
       /\ image_file = FALSE

C14_Witness ==
    /\ pc = "value_error"
    /\ api_key
    /\ image_model = "dall-e-3"
    /\ requests = <<>>
    /\ report = <<>>

\* C15: a run with a credential, a supported image model and a loaded flow
\* stops only by writing the report or by failing to write it: it never ends
\* in an error of the summarizer or of the image stage
C15_OnlyReportEndsRun ==
    /\ pc \notin {"summary_error", "image_error"}
    /\ pc = "done" => report # <<>>

\* C16: with n > K interactions extracted ranking is triggered, the summary
\* request carries exactly K interactions, they are the ranker's result in
\* the ranker's order, and generate_summary returns that list
C16_SummaryBuiltFromRanked ==
    \A k \in 1..Len(SummaryRequests) :
       Len(all_interactions) > max_interactions_for_summary =>
          /\ ranked.how \in {"mmr", "fallback"}
          /\ Len(SummaryRequests[k].interactions) = max_interactions_for_summary
          /\ SummaryRequests[k].interactions = interactions
          /\ ranked.how = "mmr" =>
                interactions = SelectByIndex(all_interactions, ranked.indices)
          /\ SummaryReturned => interactions_for_summary = interactions

(***************************************************************************)
(* Properties of the report assembler.                                     *)
(***************************************************************************)
\* C17: the written report holds, for the interaction received at 0-based
\* position j, the line "<j+1>. <interaction>"; these lines are consecutive,
\* in the order received and numbered 1..n; the summary text is a line
\* before them and the one image line, which embeds the image path
\* literally, is after them
C17_ReportLayout ==
    pc = "done" =>
       LET n == Len(all_interactions)
           image_line == "![Flow Visualization](" \o image_output \o ")"
       IN  \E base \in 1..Len(report) :
              /\ base + n <= Len(report)
              /\ \A j \in 0..(n - 1) :
                    report[base + j + 1] =
                       ToString(j + 1) \o ". " \o all_interactions[j + 1]
              /\ \E p \in 1..base : report[p] = summary
              /\ \E p \in (base + n + 1)..Len(report) : report[p] = image_line
              /\ Cardinality({p \in 1..Len(report) : report[p] = image_line}) = 1

C17_Witness ==
    /\ pc = "done"
    /\ all_interactions = <<"Click Save", "Type a name", "Click Save">>
    /\ image_output = "out/social.png"
    /\ report[5] = summary
    /\ report[9] = "1. Click Save"
    /\ report[10] = "2. Type a name"
    /\ report[11] = "3. Click Save"
    /\ report[15] = "![Flow Visualization](out/social.png)"

(***************************************************************************)
(* Properties of the MMR selection.                                        *)
(***************************************************************************)
\* the ranker's return: the step that leaves the loop of _mmr_select_indices
RankerReturns == pc = "mmr_loop" /\ pc' # "mmr_loop"

\* the returned list is in selection order
ReturnedInSelectionOrder ==
    /\ Len(interactions') = Len(selected_indices)
    /\ \A j \in 1..Len(selected_indices) :
          interactions'[j] = all_interactions[selected_indices[j] + 1]

\* the first selected index has the highest importance, the earliest such
SeedIsHighest ==
    LET first == selected_indices[1] + 1
    IN  /\ ~IsNaN(importance_scores[first])
        /\ \A k \in 1..Len(importance_scores) :
              /\ ~IsNaN(importance_scores[k])
              /\ importance_scores[k] <= importance_scores[first]
              /\ importance_scores[k] = importance_scores[first] => first <= k

\* the first selected index is the earliest whose importance is NaN
SeedIsFirstNaN ==
    LET first == selected_indices[1] + 1
    IN  /\ IsNaN(importance_scores[first])
        /\ \A k \in 1..Len(importance_scores) :
              IsNaN(importance_scores[k]) => first <= k

SetMax(S) == CHOOSE x \in S : \A y \in S : y <= x

\* 250 * (0.7 * importance(c) + 0.3 * (1 - max similarity of c to sel))
C19Score(c, sel) ==
    7 * importance_scores[c + 1]
    + 3 * (25 - SetMax({cosine_similarity(embeddings[c + 1], embeddings[sel[j] + 1]) :
                           j \in 1..Len(sel)}))

Unselected == {remaining_indices[j] : j \in 1..Len(remaining_indices)}

\* C19: every iteration after the seed adds one unselected candidate whose
\* score is maximal among the unselected ones, the smallest original index
\* among those tied at the maximum
C19_IterationPicksBest ==
    [][(pc = "mmr_loop" /\ pc' = "mmr_loop") =>
          LET c == selected_indices'[Len(selected_indices')]
          IN  /\ selected_indices' = Append(selected_indices, c)
              /\ c \in Unselected
              /\ \A j \in 1..Len(selected_indices) : selected_indices[j] # c
              /\ \A d \in Unselected :
                    /\ C19Score(d, selected_indices) <= C19Score(c, selected_indices)
                    /\ C19Score(d, selected_indices) = C19Score(c, selected_indices)
                          => c <= d]_vars

C19_Witness ==
    /\ pc = "mmr_loop"
    /\ Len(selected_indices) = 2
    /\ \E d \in Unselected :
          /\ d > selected_indices[2]
          /\ C19Score(d, <<selected_indices[1]>>)
                = C19Score(selected_indices[2], <<selected_indices[1]>>)
    /\ \E d \in Unselected :
          C19Score(d, <<selected_indices[1]>>)
             < C19Score(selected_indices[2], <<selected_indices[1]>>)

\* C20: a run with more than K interactions issues one embedding request and
\* never a second one, also after that request failed; its input is the
\* importance query at index 0 followed by the n interactions in their
\* original order
C20_OneEmbeddingRequest ==
    /\ Len(EmbedRequests) <= 1
    /\ (/\ ExtractionOver
        /\ pc # "rank"
        /\ Len(all_interactions) > max_interactions_for_summary) =>
          /\ Len(EmbedRequests) = 1
          /\ Len(EmbedRequests[1].input) = Len(all_interactions) + 1
          /\ EmbedRequests[1].input[1] = QueryText(flow_data)
          /\ \A j \in 1..Len(all_interactions) :
                EmbedRequests[1].input[j + 1] = all_interactions[j]

C20_Witness ==
    /\ pc = "image"
    /\ ranked.embed = "error"
    /\ Len(all_interactions) = 3
    /\ Len(EmbedRequests) = 1
    /\ EmbedRequests[1].input[1] = QueryText(flow_data)
    /\ EmbedRequests[1].input[4] = all_interactions[3]

(***************************************************************************)
(* Properties of the order of the stages and of the loop of the ranker.    *)
(***************************************************************************)
\* position of a request kind in the order of the stages
StageRank(kind) ==
    CASE kind = "extract" -> 1
      [] kind = "embed" -> 2
      [] kind = "summary" -> 3

ScoresDefined ==
    \A k \in 1..Len(importance_scores) : ~IsNaN(importance_scores[k])

\* C22: the selection loop terminates; with n >= 1 embeddings and scores that
\* are numbers every iteration moves exactly one index from the remaining
\* ones to the selected ones, and the loop ends with min(max(K, 1), n)
\* selected indices
C22_LoopTerminates ==
    /\ (pc = "mmr_loop") ~> (pc = "summarize")
    /\ []((/\ pc = "mmr_loop"
           /\ ScoresDefined
           /\ MMRLoopCond(selected_indices, remaining_indices,
                          max_interactions_for_summary)) =>
             BestIdx(embeddings, importance_scores, selected_indices,
                     remaining_indices) # NoIdx)
    /\ [][(pc = "mmr_loop" /\ pc' = "mmr_loop") =>
             \E c \in Unselected :
                /\ selected_indices' = Append(selected_indices, c)
                /\ Len(remaining_indices') = Len(remaining_indices) - 1
                /\ {remaining_indices'[j] : j \in 1..Len(remaining_indices')}
                      = Unselected \ {c}]_vars
    /\ [][(RankerReturns /\ ScoresDefined) =>
             Len(selected_indices) =
                Min(Max(max_interactions_for_summary, 1), Len(embeddings))]_vars

C22_Witness ==
    /\ pc = "summarize"
    /\ ranked.how = "mmr"
    /\ max_interactions_for_summary = 2
    /\ Len(all_interactions) = 3
    /\ Len(ranked.indices) = 2
    /\ Len(interactions) = 2

Selected == {selected_indices[j] : j \in 1..Len(selected_indices)}

\* C23: during the selection the selected and the remaining indices are
\* disjoint, together they are 0..n-1, no index is selected twice and the
\* remaining indices are in increasing order
C23_SelectedRemainingPartition ==
    pc = "mmr_loop" =>
       /\ Selected \cap Unselected = {}
       /\ Selected \cup Unselected = 0..(Len(embeddings) - 1)
       /\ Cardinality(Selected) = Len(selected_indices)
       /\ \A i, j \in 1..Len(remaining_indices) :
             i < j => remaining_indices[i] < remaining_indices[j]

C23_Witness ==
    /\ pc = "mmr_loop"
    /\ selected_indices = <<2, 0>>
    /\ remaining_indices = <<1, 3>>

\* C24: ranking and summarizing leave the list returned by
\* identify_interactions unchanged, and a run that got past the summarizer
\* ends with a report that lists every one of these interactions, in
\* discovery order
C24_ReportListsEveryInteraction ==
    /\ ExtractionOver =>
          all_interactions =
             Concat([c \in 1..Len(chunk_results) |-> Contribution(chunk_results[c])])
    /\ pc \in {"image_error", "done"} =>
          /\ Len(report) = Len(all_interactions) + 13
          /\ \A j \in 1..Len(all_interactions) :
                report[8 + j] = NumberedLine(j, all_interactions[j])

====
